---------------------------- MODULE Spec2Model ----------------------------
(***************************************************************************)
(* Model of generate_website.py: the static catalog site generator.        *)
(*                                                                         *)
(*   load_data            reads the two sheets of the workbook             *)
(*   generate_inventory   one card per inventory row                       *)
(*   generate_demos       one card per demo row                            *)
(*   build_site           load, then write index / inventory / demos       *)
(*   the page script      filterCards and the image modal of a listing page*)
(*                                                                         *)
(* Text is modelled as a sequence of one-character strings, so that        *)
(* str.lower, str.strip, re.split and String.includes are computed and not *)
(* assumed.  A spreadsheet cell is a tagged value: text, NaN (an empty     *)
(* cell as pandas reads it) or a number.                                   *)
(***************************************************************************)
EXTENDS Integers, Sequences, FiniteSets, TLC

VARIABLES
    workbook,       \* the spreadsheet on disk (DATA_FILE)
    origins,        \* the environment of the run: what a shared-link URL and
                    \* a cloud storage would yield, were they asked
    files,          \* OUTPUT_DIR: file name -> what it holds
    pc,             \* position of the running function
    inv_df,         \* inventory DataFrame
    demos_df,       \* demos DataFrame
    page,           \* the cards a generate_* call produced (the page body)
    selected,       \* select.value of the listing page
    query,          \* searchInput.value of the listing page
    display,        \* card.style.display, per card of the page
    modal_display,  \* modal.style.display
    modal_src,      \* modalImg.src
    last_click      \* history: the most recent click on a card image or on the
                    \* modal (kind, target), the src of the last image clicked,
                    \* and which of a card image ("image") and the overlay or
                    \* its close button ("dismiss") was clicked last (effective)

vars == <<workbook, origins, files, pc, inv_df, demos_df, page, selected, query,
          display, modal_display, modal_src, last_click>>

----------------------------------------------------------------------------
(* Bounds of the model.                                                    *)

MaxSheetRows == 4
MaxPageCards == 2

----------------------------------------------------------------------------
(* Text.                                                                   *)

LowerOf ==
    [A |-> "a", B |-> "b", C |-> "c", D |-> "d", E |-> "e", F |-> "f",
     G |-> "g", H |-> "h", I |-> "i", J |-> "j", K |-> "k", L |-> "l",
     M |-> "m", N |-> "n", O |-> "o", P |-> "p", Q |-> "q", R |-> "r",
     S |-> "s", T |-> "t", U |-> "u", V |-> "v", W |-> "w", X |-> "x",
     Y |-> "y", Z |-> "z"]

\* str.lower() / String.prototype.toLowerCase()
lower(s) ==
    [i \in 1..Len(s) |-> IF s[i] \in DOMAIN LowerOf THEN LowerOf[s[i]] ELSE s[i]]

\* the characters str.strip() removes and \s matches
Whitespace == {" ", "\t", "\n", "\r"}

RECURSIVE lstrip(_)
lstrip(s) ==
    IF s /= <<>> /\ Head(s) \in Whitespace THEN lstrip(Tail(s)) ELSE s

RECURSIVE rstrip(_)
rstrip(s) ==
    IF s /= <<>> /\ s[Len(s)] \in Whitespace
    THEN rstrip(SubSeq(s, 1, Len(s) - 1))
    ELSE s

\* str.strip()
strip(s) == rstrip(lstrip(s))

\* str.startswith(prefix)
startswith(s, prefix) ==
    Len(prefix) <= Len(s) /\ SubSeq(s, 1, Len(prefix)) = prefix

\* String.prototype.includes(q): q occurs in s as a substring
includes(s, q) ==
    \E i \in 0..(Len(s) - Len(q)) : SubSeq(s, i + 1, i + Len(q)) = q

\* the characters of the model's texts, in code-point order
code_points ==
    <<"\t", "\n", "\r", " ", "+", "-", ".", "/",
      "0", "1", "2", "3", "4", "5", "6", "7", "8", "9", ":",
      "A", "B", "C", "D", "E", "F", "G", "H", "I", "J", "K", "L", "M",
      "N", "O", "P", "Q", "R", "S", "T", "U", "V", "W", "X", "Y", "Z", "_",
      "a", "b", "c", "d", "e", "f", "g", "h", "i", "j", "k", "l", "m",
      "n", "o", "p", "q", "r", "s", "t", "u", "v", "w", "x", "y", "z">>

ord(ch) == CHOOSE k \in 1..Len(code_points) : code_points[k] = ch

\* a < b for two str: by code point, a proper prefix first
RECURSIVE str_lt(_, _)
str_lt(a, b) ==
    IF b = <<>> THEN FALSE
    ELSE IF a = <<>> THEN TRUE
    ELSE IF Head(a) = Head(b) THEN str_lt(Tail(a), Tail(b))
    ELSE ord(Head(a)) < ord(Head(b))

\* sorted(S) of a set of str
RECURSIVE sorted(_)
sorted(S) ==
    IF S = {} THEN <<>>
    ELSE LET least == CHOOSE a \in S : \A b \in S \ {a} : str_lt(a, b)
         IN  <<least>> \o sorted(S \ {least})

Digit == <<"0", "1", "2", "3", "4", "5", "6", "7", "8", "9">>

RECURSIVE NatToStr(_)
NatToStr(n) ==
    IF n < 10 THEN <<Digit[n + 1]>>
    ELSE NatToStr(n \div 10) \o <<Digit[(n % 10) + 1]>>

----------------------------------------------------------------------------
(* Cells and DataFrames.                                                   *)

Str(s) == [t |-> "str", s |-> s, n |-> 0]
Num(n) == [t |-> "num", s |-> <<>>, n |-> n]
NaN == [t |-> "nan", s |-> <<>>, n |-> 0]

\* str(x) of a cell value
str(c) ==
    CASE c.t = "str" -> c.s
      [] c.t = "nan" -> <<"n","a","n">>
      [] OTHER -> IF c.n < 0 THEN <<"-">> \o NatToStr(-c.n) ELSE NatToStr(c.n)

\* bool(x) of a cell value: '' and 0 are falsy, NaN is truthy
truthy(c) ==
    CASE c.t = "str" -> c.s /= <<>>
      [] c.t = "num" -> c.n /= 0
      [] OTHER -> TRUE

\* A DataFrame: its column labels and its rows, each row as wide as columns.
DataFrame(columns, rows) == [columns |-> columns, rows |-> rows]

\* "name in row.index"
HasColumn(df, name) == \E j \in 1..Len(df.columns) : df.columns[j] = name

ColumnIndex(df, name) ==
    CHOOSE j \in 1..Len(df.columns) :
        /\ df.columns[j] = name
        /\ \A k \in 1..(j - 1) : df.columns[k] /= name

\* row[name], for a label the frame has
Cell(df, r, name) == df.rows[r][ColumnIndex(df, name)]

----------------------------------------------------------------------------
(* load_data.                                                              *)

s_Manufacturer == <<"M","a","n","u","f","a","c","t","u","r","e","r">>
s_CommonName == <<"C","o","m","m","o","n"," ","N","a","m","e">>
s_Partnumber == <<"P","a","r","t","n","u","m","b","e","r">>
s_Link == <<"L","i","n","k">>
s_Image == <<"I","m","a","g","e">>
s_ImageURL == <<"I","m","a","g","e","U","R","L">>
s_GithubIndex == <<"G","i","t","h","u","b","I","n","d","e","x">>
s_manufacturer == <<"m","a","n","u","f","a","c","t","u","r","e","r">>

standard_cols ==
    <<s_Manufacturer, s_CommonName, s_Partnumber, s_Link, s_Image,
      s_ImageURL, s_GithubIndex>>

\* The label pandas gives column j of a sheet whose header cell is c.
HeaderLabel(c, j) ==
    IF c.t = "nan" THEN <<"U","n","n","a","m","e","d",":"," ">> \o NatToStr(j - 1) ELSE str(c)

\* xl.parse(sheet): the first row of the sheet is the header, the rows below
\* it are the data; a sheet with no rows parses to a frame with no columns.
parse(sheet) ==
    IF sheet = <<>> THEN DataFrame(<<>>, <<>>)
    ELSE DataFrame([j \in 1..Len(sheet[1]) |-> HeaderLabel(sheet[1][j], j)],
                   Tail(sheet))

\* A mutant of rename_columns: the columns after the seventh are dropped.
rename_columns_truncating(col_names) ==
    SubSeq(standard_cols, 1,
           IF Len(col_names) >= Len(standard_cols)
           THEN Len(standard_cols) ELSE Len(col_names))

\* new_cols: the first seven columns get the standard names by position.
rename_columns(col_names) ==
    IF Len(col_names) >= Len(standard_cols)
    THEN standard_cols \o SubSeq(col_names, Len(standard_cols) + 1, Len(col_names))
    ELSE SubSeq(standard_cols, 1, Len(col_names))

\* The filter of the duplicated header row: the cell is compared as it was
\* read, before any whitespace is trimmed.
is_header_echo(c) == lower(str(c)) = s_manufacturer

\* fillna('') and the per-cell strip
clean_cell(c) ==
    CASE c.t = "nan" -> Str(<<>>)
      [] c.t = "str" -> Str(strip(c.s))
      [] OTHER -> c

fillna(c) == IF c.t = "nan" THEN Str(<<>>) ELSE c

MapCells(df, f(_)) ==
    DataFrame(df.columns,
              [r \in 1..Len(df.rows) |->
                  [j \in 1..Len(df.rows[r]) |-> f(df.rows[r][j])]])

\* The inventory part of load_data on a parsed sheet.  inv_df['Manufacturer']
\* raises KeyError when the sheet has no column at all.
normalize_inventory(sheet) ==
    LET parsed == parse(sheet)
        renamed == DataFrame(rename_columns(parsed.columns), parsed.rows)
    IN  IF ~HasColumn(renamed, s_Manufacturer)
        THEN [ok |-> FALSE, df |-> DataFrame(<<>>, <<>>)]
        ELSE LET j == ColumnIndex(renamed, s_Manufacturer)
                 kept == SelectSeq(renamed.rows,
                                   LAMBDA row : ~is_header_echo(row[j]))
             IN  [ok |-> TRUE,
                  df |-> MapCells(DataFrame(renamed.columns, kept), clean_cell)]

normalize_demos(sheet) == MapCells(parse(sheet), fillna)

\* A mutant of load_data: the Demos sheet is not required.
load_data_without_demos_check(xl) ==
    IF ~xl.exists \/ ~("Inventory" \in xl.sheets)
    THEN [ok |-> FALSE, inv |-> DataFrame(<<>>, <<>>), demos |-> DataFrame(<<>>, <<>>)]
    ELSE LET inv == normalize_inventory(xl.Inventory)
         IN  [ok |-> inv.ok, inv |-> inv.df, demos |-> normalize_demos(xl.Demos)]

\* load_data(): pd.ExcelFile raises when the file is not there, xl.parse
\* raises when the sheet is not in the workbook.
load_data(xl) ==
    IF ~xl.exists \/ ~("Inventory" \in xl.sheets) \/ ~("Demos" \in xl.sheets)
    THEN [ok |-> FALSE, inv |-> DataFrame(<<>>, <<>>), demos |-> DataFrame(<<>>, <<>>)]
    ELSE LET inv == normalize_inventory(xl.Inventory)
         IN  [ok |-> inv.ok, inv |-> inv.df, demos |-> normalize_demos(xl.Demos)]

----------------------------------------------------------------------------
(* Cards.  A card is its data-manufacturer key and the elements appended   *)
(* to card_parts, in order.  An element has a kind (its tag), a label (the *)
(* static text of its markup, for an img its alt), its text (for an img    *)
(* its src, for an a its href), and for the team counts and the tags its   *)
(* items.                                                                  *)

El(kind, label, text) ==
    [kind |-> kind, label |-> label, text |-> text, items |-> <<>>]

ElItems(kind, label, items) ==
    [kind |-> kind, label |-> label, text |-> <<>>, items |-> items]

Card(key, parts) == [manufacturer |-> key, parts |-> parts]

\* The elements of a card of the given kind and label, in order.
Parts(card, kind, label) ==
    SelectSeq(card.parts, LAMBDA e : e.kind = kind /\ e.label = label)

\* a generate_* call either returns its page (the options of the select and
\* the cards of the grid) or raises
Generated(options, cards) == [ok |-> TRUE, options |-> options, cards |-> cards]
Raised == [ok |-> FALSE, options |-> <<>>, cards |-> <<>>]

s_all == <<"a","l","l">>

\* <option value="{m.lower()}">{m}</option>, after the option "all"
Option(value, label) == [value |-> value, label |-> label]

select_options(manufacturers) ==
    <<Option(s_all, <<"A","l","l"," ","M","a","n","u","f","a","c","t","u","r","e","r","s">>)>>
    \o [k \in 1..Len(manufacturers) |->
            Option(lower(manufacturers[k]), manufacturers[k])]

----------------------------------------------------------------------------
(* generate_inventory.                                                     *)

s_no == <<"n","o">>
s_in_github_index == <<"i","n"," ","g","i","t","h","u","b"," ","i","n","d","e","x">>

team_members == << <<"K","K">>, <<"M","L">>, <<"N","M">>, <<"S","D">>, <<"S","L">>, <<"Z","A">> >>

IsDigits(s) == s /= <<>> /\ \A i \in 1..Len(s) : \E d \in 1..10 : Digit[d] = s[i]

DigitValue(ch) == (CHOOSE d \in 1..10 : Digit[d] = ch) - 1

RECURSIVE DigitsValue(_)
DigitsValue(s) ==
    IF s = <<>> THEN 0
    ELSE 10 * DigitsValue(SubSeq(s, 1, Len(s) - 1)) + DigitValue(s[Len(s)])

\* int(val): [ok, n]; a text that is not an optionally signed run of digits
\* raises ValueError.
py_int(c) ==
    IF c.t = "num" THEN [ok |-> TRUE, n |-> c.n]
    ELSE LET s == strip(str(c))
             signed == s /= <<>> /\ Head(s) \in {"+", "-"}
             digits == IF signed THEN Tail(s) ELSE s
         IN  IF ~IsDigits(digits) THEN [ok |-> FALSE, n |-> 0]
             ELSE [ok |-> TRUE,
                   n |-> IF signed /\ Head(s) = "-"
                         THEN -DigitsValue(digits) ELSE DigitsValue(digits)]

\* A mutant of team_count: a text that int() rejects counts as one board.
team_count_unparsed_as_one(c) ==
    IF strip(str(c)) = <<>> THEN 0
    ELSE IF py_int(c).ok THEN py_int(c).n ELSE 1

\* count = int(val) if str(val).strip() else 0, ValueError gives 0
team_count(c) ==
    IF strip(str(c)) = <<>> THEN 0
    ELSE IF py_int(c).ok THEN py_int(c).n ELSE 0

\* A mutant of thumbnail: the generic Image field comes first.
thumbnail_generic_first(df, r) ==
    IF truthy(Cell(df, r, s_Image)) THEN Cell(df, r, s_Image)
    ELSE Cell(df, r, s_ImageURL)

\* image = row['ImageURL'] if row['ImageURL'] else row['Image']
thumbnail(df, r) ==
    IF truthy(Cell(df, r, s_ImageURL)) THEN Cell(df, r, s_ImageURL)
    ELSE Cell(df, r, s_Image)

\* if image and image.lower() != 'no'
shows_image(image) == truthy(image) /\ lower(str(image)) /= s_no

\* if link and isinstance(link, str) and link.strip() and link.lower() != 'no'
shows_product_link(link) ==
    /\ truthy(link)
    /\ link.t = "str"
    /\ strip(link.s) /= <<>>
    /\ lower(link.s) /= s_no

\* A mutant of shows_github_link: the sentinel 'no' is not recognised.
shows_github_link_without_no(gh_index) ==
    LET gh_index_clean == lower(strip(str(gh_index)))
    IN  gh_index_clean /= <<>>
        /\ gh_index_clean \notin {<<>>, s_in_github_index}

\* gh_index_clean and gh_index_clean not in ('', 'no', 'in github index')
shows_github_link(gh_index) ==
    LET gh_index_clean == lower(strip(str(gh_index)))
    IN  gh_index_clean /= <<>>
        /\ gh_index_clean \notin {<<>>, s_no, s_in_github_index}

\* The body of the loop over inv_df.iterrows() raises: KeyError for a column
\* the frame lacks, AttributeError for .strip() / .lower() of a number.
inventory_row_raises(df, r) ==
    \/ \E name \in {s_Manufacturer, s_CommonName, s_Partnumber, s_Link,
                    s_ImageURL, s_GithubIndex} : ~HasColumn(df, name)
    \/ Cell(df, r, s_Manufacturer).t /= "str"
    \/ (~truthy(Cell(df, r, s_ImageURL)) /\ ~HasColumn(df, s_Image))
    \/ (truthy(thumbnail(df, r)) /\ thumbnail(df, r).t /= "str")

inventory_counts(df, r) ==
    LET present == SelectSeq(team_members, LAMBDA member : HasColumn(df, member))
    IN  [k \in 1..Len(present) |->
            [name |-> present[k], n |-> team_count(Cell(df, r, present[k]))]]

\* A mutant of inventory_card: the cards are numbered as they are rendered.
inventory_card_numbered(df, r) ==
    Card(lower(strip(Cell(df, r, s_Manufacturer).s)),
         <<El("h2", NatToStr(r), str(Cell(df, r, s_CommonName))),
           El("p", <<"M","a","n","u","f","a","c","t","u","r","e","r",":">>, strip(Cell(df, r, s_Manufacturer).s)),
           El("p", <<"P","a","r","t"," ","N","u","m","b","e","r",":">>, str(Cell(df, r, s_Partnumber)))>>)

\* card_parts of one row, for a row whose loop body does not raise
inventory_card(df, r) ==
    LET manufacturer == strip(Cell(df, r, s_Manufacturer).s)
        image == thumbnail(df, r)
        link == Cell(df, r, s_Link)
        gh_index == Cell(df, r, s_GithubIndex)
        inventory_info == inventory_counts(df, r)
    IN  Card(lower(manufacturer),
             <<El("h2", <<>>, str(Cell(df, r, s_CommonName)))>>
             \o (IF shows_image(image)
                 THEN <<El("img", str(Cell(df, r, s_CommonName)), str(image))>>
                 ELSE <<>>)
             \o <<El("p", <<"M","a","n","u","f","a","c","t","u","r","e","r",":">>, manufacturer),
                  El("p", <<"P","a","r","t"," ","N","u","m","b","e","r",":">>, str(Cell(df, r, s_Partnumber)))>>
             \o (IF shows_product_link(link)
                 THEN <<El("a", <<"P","r","o","d","u","c","t"," ","p","a","g","e">>, str(link))>> ELSE <<>>)
             \o (IF shows_github_link(gh_index)
                 THEN <<El("a", <<"G","i","t","H","u","b"," ","r","e","f","e","r","e","n","c","e">>, str(gh_index))>> ELSE <<>>)
             \o (IF inventory_info /= <<>>
                 THEN <<ElItems("counts", <<"T","e","a","m"," ","i","n","v","e","n","t","o","r","y",":">>, inventory_info)>>
                 ELSE <<>>))

\* manufacturers = sorted({m.strip() for m in inv_df['Manufacturer'] if m.strip()})
inventory_manufacturers(df) ==
    sorted({strip(Cell(df, r, s_Manufacturer).s) : r \in 1..Len(df.rows)} \ {<<>>})

\* A mutant of generate_inventory: a row without a manufacturer gets no card.
generate_inventory_named_only(df) ==
    IF ~HasColumn(df, s_Manufacturer)
       \/ \E r \in 1..Len(df.rows) : inventory_row_raises(df, r)
    THEN Raised
    ELSE LET named == SelectSeq([r \in 1..Len(df.rows) |-> r],
                                LAMBDA r : strip(Cell(df, r, s_Manufacturer).s) /= <<>>)
         IN  Generated(select_options(inventory_manufacturers(df)),
                       [k \in 1..Len(named) |-> inventory_card(df, named[k])])

\* generate_inventory(inv_df): the options and the cards of the page, or an
\* exception
generate_inventory(df) ==
    IF ~HasColumn(df, s_Manufacturer)
       \/ \E r \in 1..Len(df.rows) : inventory_row_raises(df, r)
    THEN Raised
    ELSE Generated(select_options(inventory_manufacturers(df)),
                   [r \in 1..Len(df.rows) |-> inventory_card(df, r)])

----------------------------------------------------------------------------
(* generate_demos.                                                         *)

s_Demo == <<"D","e","m","o">>
s_GithubLink == <<"G","i","t","h","u","b"," ","L","i","n","k">>
s_DemoDescription == <<"D","e","m","o"," ","D","e","s","c","r","i","p","t","i","o","n">>
s_dash == <<"-">>
s_http == <<"h","t","t","p">>
s_https_prefix == <<"h","t","t","p","s",":","/","/">>

target_cols == << <<"T","a","r","g","e","t"," ","1">>, <<"T","a","r","g","e","t"," ","2">>, <<"T","a","r","g","e","t"," ","3">>, <<"T","a","r","g","e","t"," ","4">> >>

dash_cols ==
    << <<"D","a","s","h","b","o","a","r","d"," ","1">>, <<"D","a","s","h","b","o","a","r","d"," ","2">>, <<"D","a","s","h","b","o","a","r","d"," ","3">>, <<"D","a","s","h","b","o","a","r","d"," ","4">>,
       <<"D","a","s","h","b","o","a","r","d"," ","5">>, <<"D","a","s","h","b","o","a","r","d"," ","6">> >>

demo_img_cols ==
    << <<"D","e","m","o"," ","I","m","a","g","e"," ","1">>, <<"D","e","m","o"," ","I","m","a","g","e"," ","2">>, <<"D","e","m","o"," ","I","m","a","g","e"," ","3">>, <<"D","e","m","o"," ","I","m","a","g","e"," ","4">>,
       <<"D","e","m","o"," ","I","m","a","g","e"," ","5">> >>

demo_cols ==
    <<s_Demo, s_Manufacturer>> \o target_cols
    \o <<s_GithubLink, s_DemoDescription>> \o dash_cols \o demo_img_cols

placeholder == <<"R","e","f","e","r"," ","t","o"," ","t","h","e"," ","l","i","n","k","e","d"," ","r","e","p","o","s","i","t","o","r","y"," ","f","o","r"," ","m","o","r","e"," ","d","e","t","a","i","l","s",".">>

\* The descriptions dictionary: predefined summaries keyed by the GitHub
\* link.  Three of its 34 entries are kept, one of them keyed without a
\* scheme; the summaries, which the code only strips and prints, are cut to
\* their first words.
descriptions_keys ==
    { <<"h","t","t","p","s",":","/","/","g","i","t","h","u","b",".","c","o","m","/","a","v","n","e","t","/","s","p","a","r","k">>,
      <<"h","t","t","p","s",":","/","/","g","i","t","h","u","b",".","c","o","m","/","m","l","a","m","p","9","9","/","s","t","s","a","f","e","-","d","e","m","o">>,
      <<"g","i","t","h","u","b",".","c","o","m","/","a","v","n","e","t","-","i","o","t","c","o","n","n","e","c","t","/","i","o","t","c","-","l","o","r","a","-","d","e","m","o","s">> }

descriptions_value(key) ==
    CASE key = <<"h","t","t","p","s",":","/","/","g","i","t","h","u","b",".","c","o","m","/","a","v","n","e","t","/","s","p","a","r","k">> ->
            <<"S","P","A","R","K"," ","i","s"," ","a"," ","s","m","a","r","t"," ","p","a","r","k","i","n","g"," ","a","n","d"," ","E","V"," ","c","h","a","r","g","i","n","g"," ","d","e","m","o">>
      [] key = <<"h","t","t","p","s",":","/","/","g","i","t","h","u","b",".","c","o","m","/","m","l","a","m","p","9","9","/","s","t","s","a","f","e","-","d","e","m","o">> ->
            <<"D","e","v","i","c","e"," ","l","o","g","g","e","r"," ","d","e","m","o">>
      [] OTHER ->
            <<"G","u","i","d","e"," ","f","o","r"," ","o","n","b","o","a","r","d","i","n","g"," ","L","o","R","a","W","A","N"," ","d","e","v","i","c","e","s"," ","t","o"," ","I","o","T","C","o","n","n","e","c","t",".">>

\* descriptions.get(key, '')
descriptions_get(key) ==
    IF key \in descriptions_keys THEN descriptions_value(key) ELSE <<>>

\* A mutant of demo_description: the placeholder is used whenever the
\* spreadsheet gives no description.
demo_description_row_only(description_cell, gh_link) ==
    IF strip(description_cell) /= <<>> THEN strip(description_cell)
    ELSE placeholder

\* description: the spreadsheet's, else the dictionary's for the lower-cased
\* link, else the generic message
demo_description(description_cell, gh_link) ==
    LET description == strip(description_cell)
        from_table == strip(descriptions_get(lower(gh_link)))
    IN  IF description /= <<>> THEN description
        ELSE IF from_table /= <<>> THEN from_table
        ELSE placeholder

ignore ==
    { <<"a","i">>, <<"k","i","t">>, <<"d","e","m","o">>, <<"d","e","m","o","s">>, <<"p","r","o","j","e","c","t">>, <<"a","n","d">>, <<"t","h","e">>,
      <<"w","i","t","h">>, <<"e","x","a","m","p","l","e">>, <<"f","a","l","l">>, <<"s","e","n","s","o","r">>, <<"d","e","t","e","c","t","i","o","n">>,
      <<"a","u","t","o","n","o","m","o","u","s">>, <<"m","i","n","i">>, <<"a","l","l">> }

\* the characters of the class [\s\-]
tag_separators == Whitespace \cup {"-"}

\* re.split(pattern+, s) for a character class: the maximal runs of other
\* characters, with an empty string where s starts or ends with a separator
RECURSIVE re_split(_, _, _)
re_split(s, seps, word) ==
    IF s = <<>> THEN <<word>>
    ELSE IF Head(s) \in seps
         THEN IF Len(s) > 1 /\ s[2] \in seps
              THEN re_split(Tail(s), seps, word)
              ELSE <<word>> \o re_split(Tail(s), seps, <<>>)
         ELSE re_split(Tail(s), seps, Append(word, Head(s)))

\* A mutant of demo_tags: the tags are cut to the first three.
demo_tags_capped(demo_name) ==
    LET words == re_split(demo_name, tag_separators, <<>>)
        kept == SelectSeq(words, LAMBDA w : w /= <<>> /\ lower(w) \notin ignore)
        tags == [k \in 1..Len(kept) |-> lower(kept[k])]
    IN  SubSeq(tags, 1, IF Len(tags) < 3 THEN Len(tags) ELSE 3)

\* tags = [w.lower() for w in words if w and w.lower() not in ignore]
demo_tags(demo_name) ==
    LET words == re_split(demo_name, tag_separators, <<>>)
        kept == SelectSeq(words, LAMBDA w : w /= <<>> /\ lower(w) \notin ignore)
    IN  [k \in 1..Len(kept) |-> lower(kept[k])]

\* the cells of the given columns of row r, in column order
RowCells(df, r, cols) == [k \in 1..Len(cols) |-> Cell(df, r, cols[k])]

\* dashboards: the text cells that are not blank and not '-' once stripped
demo_dashboards(df, r) ==
    SelectSeq(RowCells(df, r, dash_cols),
              LAMBDA c : c.t = "str" /\ strip(c.s) /= <<>> /\ strip(c.s) /= s_dash)

\* demo_imgs: the text cells that are not blank once stripped
demo_images(df, r) ==
    SelectSeq(RowCells(df, r, demo_img_cols),
              LAMBDA c : c.t = "str" /\ strip(c.s) /= <<>>)

\* sep.join(parts)
RECURSIVE join(_, _)
join(sep, parts) ==
    IF parts = <<>> THEN <<>>
    ELSE IF Len(parts) = 1 THEN parts[1]
    ELSE parts[1] \o sep \o join(sep, Tail(parts))

\* targets = [row[col].strip() for col in ... if row[col]]
demo_targets(df, r) ==
    LET given == SelectSeq(RowCells(df, r, target_cols), truthy)
    IN  [k \in 1..Len(given) |-> strip(given[k].s)]

\* The body of the loop over demos_df.iterrows() raises: KeyError for a
\* column the frame lacks, AttributeError for .strip() of a number.
demo_row_raises(df, r) ==
    \/ \E k \in 1..Len(demo_cols) : ~HasColumn(df, demo_cols[k])
    \/ \E name \in {s_Manufacturer, s_Demo, s_GithubLink, s_DemoDescription} :
          Cell(df, r, name).t /= "str"
    \/ \E k \in 1..Len(target_cols) :
          LET c == Cell(df, r, target_cols[k]) IN truthy(c) /\ c.t /= "str"

\* the images of a list, each rendered unless it is empty or '-'
image_elements(label, cells) ==
    LET shown == SelectSeq(cells, LAMBDA c : c.s /= <<>> /\ c.s /= s_dash)
    IN  [k \in 1..Len(shown) |-> El("img", label, shown[k].s)]

\* card of one row, for a row whose loop body does not raise
demo_card(df, r) ==
    LET manufacturer == strip(Cell(df, r, s_Manufacturer).s)
        demo_name == strip(Cell(df, r, s_Demo).s)
        targets == demo_targets(df, r)
        gh_link == strip(Cell(df, r, s_GithubLink).s)
        description == demo_description(Cell(df, r, s_DemoDescription).s, gh_link)
        dashboards == demo_dashboards(df, r)
        demo_imgs == demo_images(df, r)
        tags == demo_tags(demo_name)
        shown_targets == SelectSeq(targets, LAMBDA t : t /= <<>>)
    IN  Card(lower(manufacturer),
             <<El("h2", <<>>, demo_name), El("p", <<"M","a","n","u","f","a","c","t","u","r","e","r",":">>, manufacturer)>>
             \o (IF targets /= <<>>
                 THEN <<El("p", <<"T","a","r","g","e","t"," ","b","o","a","r","d","s",":">>, join(<<",", " ">>, shown_targets))>>
                 ELSE <<>>)
             \o (IF tags /= <<>>
                 THEN <<ElItems("tags", <<>>,
                                [k \in 1..Len(tags) |-> [name |-> tags[k], n |-> 0]])>>
                 ELSE <<>>)
             \o <<El("p", <<>>, description)>>
             \o (IF gh_link /= <<>> /\ lower(gh_link) /= s_no /\ lower(gh_link) /= s_dash
                 THEN <<El("a", <<"G","i","t","H","u","b"," ","R","e","p","o","s","i","t","o","r","y">>,
                           IF startswith(lower(gh_link), s_http) THEN gh_link
                           ELSE s_https_prefix \o gh_link)>>
                 ELSE <<>>)
             \o (IF dashboards /= <<>>
                 THEN <<El("h3", <<"D","a","s","h","b","o","a","r","d"," ","S","n","a","p","s","h","o","t","s">>, <<>>)>>
                      \o image_elements(<<"D","a","s","h","b","o","a","r","d"," ","i","m","a","g","e">>, dashboards)
                 ELSE <<>>)
             \o (IF demo_imgs /= <<>>
                 THEN <<El("h3", <<"D","e","m","o"," ","I","m","a","g","e","s">>, <<>>)>>
                      \o [k \in 1..Len(demo_imgs) |->
                             El("img", <<"D","e","m","o"," ","i","m","a","g","e">>, demo_imgs[k].s)]
                 ELSE <<>>))

\* manufacturers = sorted({row['Manufacturer'].strip() for _, row in ... if ...})
demos_manufacturers(df) ==
    sorted({strip(Cell(df, r, s_Manufacturer).s) : r \in 1..Len(df.rows)} \ {<<>>})

\* generate_demos(demos_df): the options and the cards of the page, or an
\* exception
generate_demos(df) ==
    IF (df.rows /= <<>> /\ ~HasColumn(df, s_Manufacturer))
       \/ \E r \in 1..Len(df.rows) : demo_row_raises(df, r)
    THEN Raised
    ELSE Generated(select_options(demos_manufacturers(df)),
                   [r \in 1..Len(df.rows) |-> demo_card(df, r)])

----------------------------------------------------------------------------
(* The script of a listing page: filterCards and the image modal.          *)

\* the text of one element, as card.textContent holds it
element_text(e) ==
    CASE e.kind = "img" -> <<>>
      [] e.kind = "a" -> e.label
      [] e.kind = "h3" -> e.label
      [] e.kind = "counts" ->
            e.label \o <<"\n">>
            \o join(<<" ">>, [k \in 1..Len(e.items) |->
                                 e.items[k].name \o <<":", " ">>
                                 \o str(Num(e.items[k].n))])
      [] e.kind = "tags" ->
            join(<<" ">>, [k \in 1..Len(e.items) |-> e.items[k].name])
      [] OTHER -> IF e.label = <<>> THEN e.text ELSE e.label \o <<" ">> \o e.text

\* card.textContent: the text of the card's elements, one per line
RECURSIVE parts_text(_)
parts_text(parts) ==
    IF parts = <<>> THEN <<>>
    ELSE <<"\n">> \o element_text(Head(parts)) \o parts_text(Tail(parts))

textContent(card) == parts_text(card.parts)

\* the src of the img elements of a card (".card img")
card_images(card) ==
    LET imgs == SelectSeq(card.parts, LAMBDA e : e.kind = "img")
    IN  [k \in 1..Len(imgs) |-> imgs[k].text]

\* the values the select can take: those of its options
option_values(options) == {options[k].value : k \in 1..Len(options)}

\* A mutant of card_matches: the query is compared without case folding.
card_matches_case_sensitive(card, sel, q) ==
    /\ (sel = s_all \/ card.manufacturer = sel)
    /\ includes(lower(textContent(card)), q)

\* matchesManufacturer && matchesQuery
card_matches(card, sel, q) ==
    LET matchesManufacturer == (sel = s_all \/ card.manufacturer = sel)
        matchesQuery == includes(lower(textContent(card)), lower(q))
    IN  matchesManufacturer /\ matchesQuery

\* filterCards(): the display of every card
filterCards(cards, sel, q) ==
    [i \in 1..Len(cards) |-> IF card_matches(cards[i], sel, q) THEN "" ELSE "none"]

\* A mutant of modal_click_closes: a click anywhere on the overlay closes it.
modal_click_closes_anywhere(target) == target \in {"modal", "closeBtn", "modalImg"}

\* if (e.target === modal || e.target === closeBtn)
modal_click_closes(target) == target = "modal" \/ target = "closeBtn"

\* The display the stylesheet gives .image-modal while its inline style is
\* unset (style.css is not part of the generator's source).
css_image_modal_display == "none"

computed_modal_display ==
    IF modal_display = "" THEN css_image_modal_display ELSE modal_display

----------------------------------------------------------------------------
(* The spreadsheets the model is run on.                                   *)

SeqsUpTo(S, n) == UNION {[1..k -> S] : k \in 0..n}

Cells(labels) == [j \in 1..Len(labels) |-> Str(labels[j])]

header_std == standard_cols \o << <<"K","K">> >>

header_alias ==
    << <<"M","f","r">>, <<"N","a","m","e">>, <<"P","N">>, <<"L","i","n","k">>, <<"I","m","g">>, <<"G","H">>, <<"I","m","g","U","R","L">>, <<"K","K">> >>

header_swapped ==
    << s_Manufacturer, <<"P","a","r","t"," ","N","o",".">>, s_CommonName, s_Link, s_Image, s_ImageURL,
       s_GithubIndex, <<"N","o","t","e","s">> >>

HeaderRow(labels, w) == SubSeq(Cells(labels), 1, w)

\* a row with a text in its first cell only
TitleRow(w) == [j \in 1..w |-> IF j = 1 THEN Str(<<"B","o","a","r","d"," ","C","a","t","a","l","o","g">>) ELSE NaN]

BlankRow(w) == [j \in 1..w |-> NaN]

\* a board: manufacturer, name, part number, link, image, image URL, GitHub
\* index, and the count of one team member
BoardRow(mfr, pn, link, image, image_url, gh, w) ==
    SubSeq(<<mfr, Str(<<"W","i","d","g","e","t">>), pn, link, image, image_url, gh, Num(2)>>, 1, w)

PlainBoard(mfr, pn, w) ==
    BoardRow(mfr, pn, Str(<<"h","t","t","p",":","/","/","x">>), Str(s_no), Str(s_no), Str(s_no), w)

\* a header row repeated below the first row, in three spellings
EchoRow(first, w) == <<Str(first)>> \o Tail(HeaderRow(header_std, w))

SheetWidths == {6, 8}

FirstRows(w) ==
    {HeaderRow(header_std, w), HeaderRow(header_alias, w),
     HeaderRow(header_swapped, w), TitleRow(w)}

LaterRows(w) ==
    {EchoRow(s_Manufacturer, w), EchoRow(<<"M","A","N","U","F","A","C","T","U","R","E","R">>, w),
     EchoRow(<<" ","M","a","n","u","f","a","c","t","u","r","e","r">>, w),
     PlainBoard(Str(<<"A","c","m","e">>), Str(<<"W","-","1","0","0">>), w),
     PlainBoard(Str(<<" ","B","e","t","a"," ">>), Str(<<" ","B","-","2">>), w),
     BlankRow(w)}

InventorySheets ==
    {<<>>} \cup UNION {{<<first>> \o rest : first \in FirstRows(w),
                                           rest \in SeqsUpTo(LaterRows(w), MaxSheetRows - 1)}
                       : w \in SheetWidths}

\* one demo: the cells of demo_cols, in that order
DemoRow(name, mfr, link, description, dashboards, demo_imgs) ==
    <<name, mfr, Str(<<"W","i","d","g","e","t">>), NaN, NaN, NaN, link, description>>
    \o dashboards \o demo_imgs

DemoHeader == Cells(demo_cols)

NoImages(n) == [k \in 1..n |-> NaN]

PlainDemo(name) ==
    DemoRow(name, Str(<<"A","c","m","e">>), Str(<<"x",".","i","o","/","d","e","m","o">>), Str(<<"O","w","n"," ","t","e","x","t">>),
            NoImages(6), NoImages(5))

Workbook(inventory, demos) ==
    [exists |-> TRUE, sheets |-> {"Inventory", "Demos"},
     Inventory |-> inventory, Demos |-> demos]

PlainInventory == <<HeaderRow(header_std, 8), PlainBoard(Str(<<"A","c","m","e">>), Str(<<"W","-","1","0","0">>), 8)>>
PlainDemos == <<DemoHeader, PlainDemo(Str(<<"S","m","a","r","t"," ","H","o","m","e">>))>>

----------------------------------------------------------------------------
(* build_site.                                                             *)

FileNames == {"index.html", "inventory.html", "demos.html"}

\* a file of OUTPUT_DIR: not there, left by an earlier run, or written by this
\* run; index.html holds the two counts, a listing page its options and cards
Absent == [state |-> "absent", options |-> <<>>, content |-> <<>>]
Stale == [state |-> "stale", options |-> <<>>, content |-> <<>>]
Fresh(content) == [state |-> "fresh", options |-> <<>>, content |-> content]
FreshPage(html) == [state |-> "fresh", options |-> html.options, content |-> html.cards]

\* an origin other than DATA_FILE: not configured, configured and failing, or
\* configured and serving a workbook
NoBook == [exists |-> FALSE, sheets |-> {}, Inventory |-> <<>>, Demos |-> <<>>]
Unset == [state |-> "unset", book |-> NoBook]
Failing == [state |-> "fails", book |-> NoBook]
Serving(book) == [state |-> "serves", book |-> book]
NoOrigins == [url |-> Unset, cloud |-> Unset]

\* A mutant of resolve_source: the shared-link URL, then the cloud storage,
\* then DATA_FILE.
resolve_source_remote_first(local, env) ==
    IF env.url.state = "serves" THEN env.url.book
    ELSE IF env.cloud.state = "serves" THEN env.cloud.book
    ELSE local

\* pd.ExcelFile(DATA_FILE): the workbook load_data opens is the local file,
\* whatever the environment offers
resolve_source(local, env) == local

\* the frames a failed load leaves unassigned
NoFrame == DataFrame(<<>>, <<>>)

\* the listing page is not open while the site is built
NoPage ==
    /\ page = <<>>
    /\ selected = s_all
    /\ query = <<>>
    /\ display = <<>>
    /\ modal_display = ""
    /\ modal_src = <<>>
    /\ last_click = [kind |-> "none", target |-> "", src |-> <<>>, effective |-> "none"]

page_vars == <<page, selected, query, display, modal_display, modal_src, last_click>>
build_vars == <<workbook, origins, files, pc, inv_df, demos_df>>

\* inv_df, demos_df = load_data()
LoadData ==
    /\ pc = "start"
    /\ LET loaded == load_data(resolve_source(workbook, origins))
       IN  IF loaded.ok
           THEN /\ inv_df' = loaded.inv
                /\ demos_df' = loaded.demos
                /\ pc' = "loaded"
           ELSE /\ pc' = "failed"
                /\ UNCHANGED <<inv_df, demos_df>>
    /\ UNCHANGED <<workbook, origins, files>>
    /\ UNCHANGED page_vars

\* OUTPUT_DIR.mkdir, generate_index and the write of index.html
WriteIndex ==
    /\ pc = "loaded"
    /\ files' = [files EXCEPT !["index.html"] =
                     Fresh(<<Len(inv_df.rows), Len(demos_df.rows)>>)]
    /\ pc' = "index"
    /\ UNCHANGED <<workbook, origins, inv_df, demos_df>>
    /\ UNCHANGED page_vars

\* generate_inventory and the write of inventory.html
WriteInventory ==
    /\ pc = "index"
    /\ LET inventory_html == generate_inventory(inv_df)
       IN  IF inventory_html.ok
           THEN /\ files' = [files EXCEPT !["inventory.html"] =
                                 FreshPage(inventory_html)]
                /\ pc' = "inventory"
           ELSE /\ pc' = "failed"
                /\ UNCHANGED files
    /\ UNCHANGED <<workbook, origins, inv_df, demos_df>>
    /\ UNCHANGED page_vars

\* generate_demos and the write of demos.html
WriteDemos ==
    /\ pc = "inventory"
    /\ LET demos_html == generate_demos(demos_df)
       IN  IF demos_html.ok
           THEN /\ files' = [files EXCEPT !["demos.html"] = FreshPage(demos_html)]
                /\ pc' = "done"
           ELSE /\ pc' = "failed"
                /\ UNCHANGED files
    /\ UNCHANGED <<workbook, origins, inv_df, demos_df>>
    /\ UNCHANGED page_vars

Next == LoadData \/ WriteIndex \/ WriteInventory \/ WriteDemos

\* a run of build_site starts with no frame loaded, over whatever an earlier
\* run left in the output directory
Start(books, olds) ==
    /\ workbook \in books
    /\ origins = NoOrigins
    /\ files \in [FileNames -> olds]
    /\ pc = "start"
    /\ inv_df = NoFrame
    /\ demos_df = NoFrame
    /\ NoPage

\* Runs over workbooks that may be missing, or lack a sheet, or hold rows the
\* generators cannot render.
BuildBooks ==
    {[exists |-> e, sheets |-> s, Inventory |-> i, Demos |-> d] :
        e \in BOOLEAN, s \in SUBSET {"Inventory", "Demos"},
        i \in {<<>>, PlainInventory,
               <<HeaderRow(header_std, 8), PlainBoard(Num(7), Str(<<"W","-","1","0","0">>), 8)>>},
        d \in {<<DemoHeader>>, PlainDemos, <<DemoHeader, PlainDemo(Num(7))>>}}

Init == Start(BuildBooks, {Absent, Stale})

Spec == Init /\ [][Next]_vars

\* Runs over Inventory sheets of every shape of header and row.
InitLoad == Start({Workbook(i, PlainDemos) : i \in InventorySheets}, {Absent})

SpecLoad == InitLoad /\ [][Next]_vars

\* Runs over one board with every combination of link and image cells.
LinkCells == {NaN, Str(s_no), Str(<<"N","O">>), Str(<<"h","t","t","p",":","/","/","x">>), Num(5)}
GithubCells ==
    {NaN, Str(s_no), Str(<<" ","N","o"," ">>), Str(<<"I","n"," ","G","i","t","h","u","b"," ","I","n","d","e","x">>), Str(<<"g","h",".","i","o","/","x">>), Num(5)}
ImageCells == {NaN, Str(<<"N","o">>), Str(<<"a",".","p","n","g">>), Num(5)}

InventoryBooks ==
    {Workbook(<<HeaderRow(header_std, 8),
                BoardRow(Str(<<"A","c","m","e">>), Str(<<"W","-","1","0","0">>), link, image, image_url, gh, 8)>>,
              PlainDemos) :
        link \in LinkCells, gh \in GithubCells,
        image \in ImageCells, image_url \in ImageCells}

InitInventory == Start(InventoryBooks, {Absent})

SpecInventory == InitInventory /\ [][Next]_vars

\* Runs over one demo with every combination of name, description, link and
\* of the first MaxImageCols cells of each image list.
MaxImageCols == 2

DemoNames ==
    {Str(<<"F","a","l","l"," ","D","e","t","e","c","t","i","o","n"," ","A","I"," ","D","e","m","o">>), Str(<<"E","V","-","C","h","a","r","g","e","r"," ","a","_","b","/","c">>),
     Str(<<" ","g","o"," ","g","o"," "," ","G","o">>), Str(<<"O","n","e"," ","t","w","o"," ","t","h","r","e","e"," ","f","o","u","r"," ","f","i","v","e"," ","s","i","x">>), NaN}

DescriptionCells == {NaN, Str(<<" ">>), Str(<<" ","O","w","n"," ","t","e","x","t">>)}

DemoLinkCells ==
    {NaN, Str(<<"h","t","t","p","s",":","/","/","g","i","t","h","u","b",".","c","o","m","/","a","v","n","e","t","/","s","p","a","r","k">>),
     Str(<<"H","T","T","P","S",":","/","/","G","i","t","H","u","b",".","c","o","m","/","a","v","n","e","t","/","s","p","a","r","k"," ">>),
     Str(<<"g","i","t","h","u","b",".","c","o","m","/","a","v","n","e","t","-","i","o","t","c","o","n","n","e","c","t","/","i","o","t","c","-","l","o","r","a","-","d","e","m","o","s">>), Str(<<"x",".","i","o","/","d","e","m","o">>)}

DemoImageCells == {NaN, Str(s_dash), Str(<<"d",".","p","n","g">>)}

\* n cells of which the first MaxImageCols are drawn and the rest are empty
ImageLists(n) ==
    {[k \in 1..n |-> IF k <= MaxImageCols /\ k <= n THEN first[k] ELSE NaN] :
        first \in [1..MaxImageCols -> DemoImageCells]}

DemoBooks ==
    {Workbook(PlainInventory,
              <<DemoHeader,
                DemoRow(name, Str(<<"A","c","m","e">>), link, description, dashboards, demo_imgs)>>) :
        name \in {Str(<<"F","a","l","l"," ","D","e","t","e","c","t","i","o","n"," ","A","I"," ","D","e","m","o">>)}, link \in DemoLinkCells,
        description \in DescriptionCells,
        dashboards \in ImageLists(6), demo_imgs \in ImageLists(5)}
    \cup
    {Workbook(PlainInventory, <<DemoHeader, PlainDemo(name)>>) : name \in DemoNames}

InitDemos == Start(DemoBooks, {Absent})

SpecDemos == InitDemos /\ [][Next]_vars

----------------------------------------------------------------------------
(* A listing page, opened in a browser.                                    *)

PageBoards ==
    {BoardRow(Str(<<"A","c","m","e">>), Str(<<"W","-","1","0","0">>), NaN, NaN, Str(<<"a",".","p","n","g">>), NaN, 8),
     BoardRow(Str(<<"B","e","t","a">>), Str(<<"B","-","2">>), NaN, NaN, Str(<<"b",".","p","n","g">>), NaN, 8),
     BoardRow(Str(<<"a","c","m","e">>), Str(<<"W","-","2","0","0">>), NaN, NaN, NaN, NaN, 8)}

PageDemos ==
    <<DemoHeader,
      DemoRow(Str(<<"S","m","a","r","t"," ","H","o","m","e">>), Str(<<"A","c","m","e">>), Str(<<"x",".","i","o","/","d","e","m","o">>), NaN,
              <<Str(<<"d",".","p","n","g">>)>> \o NoImages(5), <<Str(<<"e",".","p","n","g">>)>> \o NoImages(4))>>

PageBooks ==
    {Workbook(<<HeaderRow(header_std, 8)>> \o boards, PageDemos) :
        boards \in SeqsUpTo(PageBoards, MaxPageCards)}

\* what the user types into the search box
Queries == {<<>>, <<"A","C","M","E">>, <<"w","-","1","0","0">>, <<"z","z","z">>}

\* DOMContentLoaded on inventory.html or demos.html of a finished run (the
\* two scripts differ in the ids of the select and the search box only):
\* every card shown, the first option selected, the search box empty, the
\* modal untouched
InitPage ==
    /\ workbook \in PageBooks
    /\ origins = NoOrigins
    /\ inv_df = load_data(workbook).inv
    /\ demos_df = load_data(workbook).demos
    /\ files = [f \in FileNames |->
                   CASE f = "index.html" ->
                            Fresh(<<Len(inv_df.rows), Len(demos_df.rows)>>)
                     [] f = "inventory.html" -> FreshPage(generate_inventory(inv_df))
                     [] OTHER -> FreshPage(generate_demos(demos_df))]
    /\ pc = "done"
    /\ page \in {files["inventory.html"].content, files["demos.html"].content}
    /\ selected = s_all
    /\ query = <<>>
    /\ display = [i \in 1..Len(page) |-> ""]
    /\ modal_display = ""
    /\ modal_src = <<>>
    /\ last_click = [kind |-> "none", target |-> "", src |-> <<>>, effective |-> "none"]

\* "change" on the select of the page that is open
SelectChange ==
    \E f \in {"inventory.html", "demos.html"} :
      \E value \in option_values(files[f].options) :
        /\ files[f].content = page
        /\ selected' = value
        /\ display' = filterCards(page, value, query)
        /\ UNCHANGED <<page, query, modal_display, modal_src, last_click>>
        /\ UNCHANGED build_vars

\* "input" on the search box
SearchInput ==
    \E value \in Queries :
        /\ query' = value
        /\ display' = filterCards(page, selected, value)
        /\ UNCHANGED <<page, selected, modal_display, modal_src, last_click>>
        /\ UNCHANGED build_vars

\* "click" on an image of a card that is shown
ImageClick ==
    \E i \in 1..Len(page) :
        \E k \in 1..Len(card_images(page[i])) :
            /\ display[i] = ""
            /\ modal_src' = card_images(page[i])[k]
            /\ modal_display' = "flex"
            /\ last_click' = [kind |-> "image", target |-> "img",
                              src |-> card_images(page[i])[k],
                              effective |-> "image"]
            /\ UNCHANGED <<page, selected, query, display>>
            /\ UNCHANGED build_vars

\* "click" on the modal, which is possible while it is displayed: on the
\* overlay itself, on its close button or on the enlarged image
ModalClick ==
    \E target \in {"modal", "closeBtn", "modalImg"} :
        /\ computed_modal_display /= "none"
        /\ modal_display' = IF modal_click_closes(target) THEN "none" ELSE modal_display
        /\ last_click' = [kind |-> "overlay", target |-> target,
                          src |-> last_click.src,
                          effective |-> IF target \in {"modal", "closeBtn"}
                                        THEN "dismiss" ELSE last_click.effective]
        /\ UNCHANGED <<page, selected, query, display, modal_src>>
        /\ UNCHANGED build_vars

NextPage == SelectChange \/ SearchInput \/ ImageClick \/ ModalClick

SpecPage == InitPage /\ [][NextPage]_vars

----------------------------------------------------------------------------
(* Further runs of build_site.                                             *)

MaxListRows == 2

\* Runs over one board with every pair of cells in the columns of two team
\* members.  A numeric cell is modelled by its integer part, which is what
\* int() makes of it.
CountCells ==
    {NaN, Str(<<" ">>), Str(<<"a","b","c">>), Str(<<"3">>), Str(<<" ","1","2"," ">>), Str(<<"-","4">>),
     Str(<<"2",".","5">>), Num(0), Num(2), Num(-3)}

header_counts == standard_cols \o << <<"K","K">>, <<"M","L">> >>

CountBooks ==
    {Workbook(<<Cells(header_counts),
                <<Str(<<"A","c","m","e">>), Str(<<"W","i","d","g","e","t">>), Str(<<"W","-","1","0","0">>), Str(<<"h","t","t","p",":","/","/","x">>),
                  NaN, Str(<<"a",".","p","n","g">>), NaN, kk, ml>> >>,
              PlainDemos) :
        kk \in CountCells, ml \in CountCells}

InitCounts == Start(CountBooks, {Absent})

SpecCounts == InitCounts /\ [][Next]_vars

\* Runs over sheets of up to MaxListRows boards and demos, with repeated rows,
\* manufacturers that differ in letter case only, and blank manufacturers.
ListBoards ==
    {PlainBoard(Str(<<"A","c","m","e">>), Str(<<"W","-","1","0","0">>), 8),
     PlainBoard(Str(<<"a","c","m","e">>), Str(<<"W","-","2","0","0">>), 8),
     PlainBoard(Str(<<" ","Z","e","t","a">>), Str(<<"Z","-","1">>), 8),
     PlainBoard(NaN, Str(<<"N","-","0">>), 8)}

ListDemos ==
    {PlainDemo(Str(<<"S","m","a","r","t"," ","H","o","m","e">>)),
     DemoRow(Str(<<"E","V","-","C","h","a","r","g","e","r">>), Str(<<" ","a","c","m","e"," ">>), NaN, NaN, NoImages(6), NoImages(5)),
     DemoRow(Str(<<"T","r","a","c","k","e","r">>), NaN, NaN, NaN, NoImages(6), NoImages(5))}

ListBooks ==
    {Workbook(<<HeaderRow(header_std, 8)>> \o boards, <<DemoHeader>> \o demos) :
        boards \in SeqsUpTo(ListBoards, MaxListRows),
        demos \in SeqsUpTo(ListDemos, MaxListRows)}

InitLists == Start(ListBooks, {Absent})

SpecLists == InitLists /\ [][Next]_vars

\* Runs in every environment: the local file there or not, the shared-link
\* URL and the cloud storage not configured, failing, or serving a workbook
\* other than the local one.
UrlBook ==
    Workbook(<<HeaderRow(header_std, 8), PlainBoard(Str(<<"U","r","l">>), Str(<<"U","-","1">>), 8)>>,
             PlainDemos)

CloudBook ==
    Workbook(<<HeaderRow(header_std, 8), PlainBoard(Str(<<"C","l","o","u","d">>), Str(<<"C","-","1">>), 8)>>,
             PlainDemos)

LocalBooks ==
    {NoBook, Workbook(PlainInventory, PlainDemos),
     Workbook(PlainInventory, <<DemoHeader>>)}

Environments ==
    {[url |-> u, cloud |-> c] : u \in {Unset, Failing, Serving(UrlBook)},
                                c \in {Unset, Failing, Serving(CloudBook)}}

InitSource ==
    /\ workbook \in LocalBooks
    /\ origins \in Environments
    /\ files \in [FileNames -> {Absent, Stale}]
    /\ pc = "start"
    /\ inv_df = NoFrame
    /\ demos_df = NoFrame
    /\ NoPage

SpecSource == InitSource /\ [][Next]_vars

----------------------------------------------------------------------------
(* The claims.                                                             *)

\* the cards of a listing page that was written by this run
Written(f) == IF files[f].state = "fresh" THEN files[f].content ELSE <<>>

Loaded == pc \notin {"start", "failed"}

SourceUnavailable ==
    \/ ~workbook.exists
    \/ "Inventory" \notin workbook.sheets
    \/ "Demos" \notin workbook.sheets

\* C1: when the workbook is missing or lacks the Inventory or the Demos
\* sheet, build_site never gets past load_data (it ends in the exception) and
\* none of index.html, inventory.html, demos.html is written.
C1_NoOutputWhenSourceUnavailable ==
    SourceUnavailable =>
        /\ pc \in {"start", "failed"}
        /\ \A f \in FileNames : files[f].state /= "fresh"

\* C1, reached: the workbook is there but a sheet is not, the run has failed,
\* and the pages of an earlier run are still the stale ones.
C1_Witness ==
    /\ workbook.exists
    /\ SourceUnavailable
    /\ pc = "failed"
    /\ \A f \in FileNames : files[f] = Stale

\* C2: after any sequence of events on a listing page, a card is shown iff
\* (the selected filter is "all" or equals the card's data-manufacturer) and
\* the card's lower-cased text contains the lower-cased query.
C2_VisibleIffMatches ==
    /\ Len(display) = Len(page)
    /\ \A i \in 1..Len(page) :
          (display[i] = "") <=>
              /\ (selected = s_all \/ page[i].manufacturer = selected)
              /\ includes(lower(textContent(page[i])), lower(query))

\* C2, reached: a manufacturer is selected and an upper-case query is typed,
\* one card is shown and another is hidden.
C2_Witness ==
    /\ selected /= s_all
    /\ query = <<"A","C","M","E">>
    /\ \E i \in 1..Len(page) : display[i] = ""
    /\ \E i \in 1..Len(page) : display[i] = "none"

ModalOpen == computed_modal_display /= "none"

\* C3 as stated: the overlay is open iff the most recent click on a card
\* image or anywhere on the overlay was a click on a card image, and it then
\* shows that image.
C3_OpenIffLastClickOnImage ==
    /\ ModalOpen <=> last_click.kind = "image"
    /\ ModalOpen => modal_src = last_click.src

\* C3, amended: the overlay is closed at first; it is open iff, of the clicks
\* on a card image, on the overlay itself and on its close button, the most
\* recent one was on a card image (a click on the enlarged image leaves it
\* open), and it then shows the image clicked last.
C3_OpenIffLastEffectiveClickOnImage ==
    /\ ModalOpen <=> last_click.effective = "image"
    /\ ModalOpen => (modal_src = last_click.src /\ modal_src /= <<>>)
    /\ last_click.kind = "none" => ~ModalOpen

\* C3, reached: the enlarged image was clicked and the overlay is still open.
C3_Witness ==
    /\ last_click.kind = "overlay"
    /\ last_click.target = "modalImg"
    /\ ModalOpen

\* C4: no row of the loaded inventory has a Manufacturer that reads
\* "manufacturer", whatever its letter case.
C4_NoHeaderEchoRow ==
    Loaded =>
        \A r \in 1..Len(inv_df.rows) :
            lower(str(Cell(inv_df, r, s_Manufacturer))) /= s_manufacturer

ReadsManufacturer(c) == lower(str(c)) = s_manufacturer

\* the first of the first 10 rows whose first cell reads "manufacturer",
\* else the first row
DetectedHeader(sheet) ==
    LET found == {i \in 1..Len(sheet) : i <= 10 /\ ReadsManufacturer(sheet[i][1])}
    IN  IF found = {} THEN 1 ELSE CHOOSE i \in found : \A k \in found : i <= k

\* C5: with the header on one of the first 10 rows (else on row 0), the rows
\* above it give no card and each data row below it gives exactly one card,
\* with its part number.  Stated for the sheets that hold no second header
\* row, with or without blanks around its first cell.
C5_HeaderRowDetected ==
    LET sheet == workbook.Inventory
        h == DetectedHeader(sheet)
        below == SubSeq(sheet, h + 1, Len(sheet))
    IN  (/\ Loaded
         /\ \A i \in 1..Len(sheet) :
               i /= h => ~ReadsManufacturer(clean_cell(sheet[i][1])))
        => /\ Len(inv_df.rows) = Len(below)
           /\ \A r \in 1..Len(below) :
                 Cell(inv_df, r, s_Partnumber) = clean_cell(below[r][3])

\* label, lower-cased and without anything but letters and digits
Bare(label) ==
    SelectSeq(lower(label),
              LAMBDA ch : ch \in {LowerOf[u] : u \in DOMAIN LowerOf}
                          \/ \E d \in 1..10 : Digit[d] = ch)

\* the alias table of the header labels
Canonical(label) ==
    LET b == Bare(label)
    IN  CASE b \in { <<"m","a","n","u","f","a","c","t","u","r","e","r">>, <<"m","f","r">> } -> s_Manufacturer
          [] b \in { <<"c","o","m","m","o","n","n","a","m","e">>, <<"n","a","m","e">> } -> s_CommonName
          [] b \in { <<"p","a","r","t","n","u","m","b","e","r">>, <<"p","a","r","t","n","o">>, <<"p","n">>, <<"m","p","n">> } -> s_Partnumber
          [] b \in { <<"l","i","n","k">>, <<"p","r","o","d","u","c","t","l","i","n","k">> } -> s_Link
          [] b \in { <<"i","m","a","g","e">>, <<"i","m","g">> } -> s_Image
          [] b \in { <<"i","m","a","g","e","u","r","l">>, <<"i","m","g","u","r","l">> } -> s_ImageURL
          [] b \in { <<"g","i","t","h","u","b","i","n","d","e","x">>, <<"g","i","t","h","u","b">>, <<"g","i","t","h","u","b","l","i","n","k">>, <<"g","h">> } -> s_GithubIndex
          [] OTHER -> label

SheetLabels == [j \in 1..Len(workbook.Inventory[1]) |->
                   HeaderLabel(workbook.Inventory[1][j], j)]

\* C6 as stated: each column of the loaded inventory is named by the
\* canonical field of its header label, wherever the column stands, and a
\* column with an unrecognised label keeps it.
C6_ColumnsNamedByLabel ==
    Loaded =>
        /\ Len(inv_df.columns) = Len(SheetLabels)
        /\ \A j \in 1..Len(SheetLabels) :
              inv_df.columns[j] = Canonical(SheetLabels[j])

\* C6, amended: the columns are named by position: whatever the header
\* labels, the first seven columns get the standard names in their order,
\* every column after the seventh keeps its own label, and no column is
\* dropped.
C6_ColumnsNamedByPosition ==
    Loaded =>
        /\ Len(inv_df.columns) = Len(SheetLabels)
        /\ \A j \in 1..Len(SheetLabels) :
              inv_df.columns[j] =
                  IF j <= 7 THEN standard_cols[j] ELSE SheetLabels[j]
        /\ \A r \in 1..Len(inv_df.rows) : Len(inv_df.rows[r]) = Len(SheetLabels)

\* C6, reached: the second column is labelled "Part No." and is named
\* Common Name, the eighth is labelled "Notes" and keeps that label.
C6_Witness ==
    /\ Loaded
    /\ Len(SheetLabels) = 8
    /\ SheetLabels[2] = <<"P","a","r","t"," ","N","o",".">>
    /\ inv_df.columns[2] = s_CommonName
    /\ inv_df.columns[8] = <<"N","o","t","e","s">>

Links(card) == SelectSeq(card.parts, LAMBDA e : e.kind = "a")

\* C7 as stated: no inventory card holds more than one external link.
C7_AtMostOneLink ==
    \A i \in 1..Len(Written("inventory.html")) :
        Len(Links(Written("inventory.html")[i])) <= 1

\* C7, amended: the card of a row holds the product link iff Link is a text
\* that is not empty and not "no" in any letter case, and the GitHub reference
\* link iff GithubIndex, trimmed and lower-cased, is none of "", "no",
\* "in github index"; each is decided on its own, the product link comes
\* first, and a card holds both when both fields are given.
C7_LinksDecidedSeparately ==
    \A i \in 1..Len(Written("inventory.html")) :
        LET card == Written("inventory.html")[i]
            link == Cell(inv_df, i, s_Link)
            gh == Cell(inv_df, i, s_GithubIndex)
            product == link.t = "str" /\ link.s /= <<>> /\ lower(link.s) /= s_no
            github == lower(strip(str(gh))) \notin {<<>>, s_no, s_in_github_index}
        IN  Links(card) =
                (IF product THEN <<El("a", <<"P","r","o","d","u","c","t"," ","p","a","g","e">>, link.s)>> ELSE <<>>)
                \o (IF github THEN <<El("a", <<"G","i","t","H","u","b"," ","r","e","f","e","r","e","n","c","e">>, str(gh))>> ELSE <<>>)

\* C7, reached: a card with the product link and the GitHub reference link.
C7_Witness ==
    \E i \in 1..Len(Written("inventory.html")) :
        Len(Links(Written("inventory.html")[i])) = 2

\* the description paragraph of a demo card
Description(card) == Parts(card, "p", <<>>)[1].text

\* C8 as stated: the description of a demo card is the row's own description
\* when that is not empty, and the placeholder otherwise.
C8_DescriptionFromRowOnly ==
    \A i \in 1..Len(Written("demos.html")) :
        LET own == strip(Cell(demos_df, i, s_DemoDescription).s)
        IN  Description(Written("demos.html")[i]) =
                IF own /= <<>> THEN own ELSE placeholder

\* C8, amended: the description is the row's own trimmed description when
\* that is not empty; else the summary the descriptions table holds for the
\* row's trimmed, lower-cased GitHub link, when it holds one; else the
\* placeholder.
C8_DescriptionFromRowThenTable ==
    \A i \in 1..Len(Written("demos.html")) :
        LET own == strip(Cell(demos_df, i, s_DemoDescription).s)
            key == lower(strip(Cell(demos_df, i, s_GithubLink).s))
        IN  Description(Written("demos.html")[i]) =
                IF own /= <<>> THEN own
                ELSE IF key \in descriptions_keys THEN descriptions_value(key)
                ELSE placeholder

\* C8, reached: a row without a description whose link, written in upper
\* case, is a key of the table: the card shows the table's summary.
C8_Witness ==
    \E i \in 1..Len(Written("demos.html")) :
        /\ strip(Cell(demos_df, i, s_DemoDescription).s) = <<>>
        /\ Cell(demos_df, i, s_GithubLink).s = <<"H","T","T","P","S",":","/","/","G","i","t","H","u","b",".","c","o","m","/","a","v","n","e","t","/","s","p","a","r","k"," ">>
        /\ Description(Written("demos.html")[i]) =
               descriptions_value(<<"h","t","t","p","s",":","/","/","g","i","t","h","u","b",".","c","o","m","/","a","v","n","e","t","/","s","p","a","r","k">>)

\* the tags of a demo card, in order
Tags(card) ==
    LET divs == SelectSeq(card.parts, LAMBDA e : e.kind = "tags")
    IN  IF divs = <<>> THEN <<>>
        ELSE [k \in 1..Len(divs[1].items) |-> divs[1].items[k].name]

DemoName(i) == strip(Cell(demos_df, i, s_Demo).s)

\* C9 as stated, in its two checkable parts: underscore and slash split the
\* name, so no tag holds either, and "Fall Detection AI Demo" gives the one
\* tag "detection".
C9_TagsAsSpecified ==
    \A i \in 1..Len(Written("demos.html")) :
        LET tags == Tags(Written("demos.html")[i])
        IN  /\ \A k \in 1..Len(tags) : \A c \in 1..Len(tags[k]) :
                   tags[k][c] \notin {"_", "/"}
            /\ DemoName(i) = <<"F","a","l","l"," ","D","e","t","e","c","t","i","o","n"," ","A","I"," ","D","e","m","o">> => tags = << <<"d","e","t","e","c","t","i","o","n">> >>

\* the maximal runs of characters of s that are neither whitespace nor a
\* hyphen, as <<first, last>> positions
Runs(s) ==
    LET word(p) == s[p] \notin (Whitespace \cup {"-"})
    IN  {<<a, b>> \in (1..Len(s)) \X (1..Len(s)) :
            /\ a <= b
            /\ \A p \in a..b : word(p)
            /\ (a = 1 \/ ~word(a - 1))
            /\ (b = Len(s) \/ ~word(b + 1))}

\* the runs of s, left to right, lower-cased, without the words of ignore
RECURSIVE RunsFrom(_, _)
RunsFrom(s, from) ==
    LET later == {run \in Runs(s) : run[1] >= from}
    IN  IF later = {} THEN <<>>
        ELSE LET run == CHOOSE x \in later : \A y \in later : x[1] <= y[1]
                 w == lower(SubSeq(s, run[1], run[2]))
             IN  (IF w \in ignore THEN <<>> ELSE <<w>>) \o RunsFrom(s, run[2] + 1)

\* C9, amended: every demo card's tags are derived from the trimmed demo
\* name: its tokens between runs of whitespace and hyphens (underscore and
\* slash do not split), lower-cased, without the words of the ignore set (ai,
\* kit, demo, demos, project, and, the, with, example, fall, sensor,
\* detection, autonomous, mini, all), left to right, not de-duplicated and
\* not capped; "Fall Detection AI Demo" gives no tag.
C9_TagsFromNameTokens ==
    \A i \in 1..Len(Written("demos.html")) :
        LET tags == Tags(Written("demos.html")[i])
        IN  /\ tags = RunsFrom(DemoName(i), 1)
            /\ DemoName(i) = <<"F","a","l","l"," ","D","e","t","e","c","t","i","o","n"," ","A","I"," ","D","e","m","o">> => tags = <<>>
            /\ DemoName(i) = <<"E","V","-","C","h","a","r","g","e","r"," ","a","_","b","/","c">>
                   => tags = << <<"e","v">>, <<"c","h","a","r","g","e","r">>, <<"a","_","b","/","c">> >>
            /\ DemoName(i) = <<"g","o"," ","g","o"," "," ","G","o">> => tags = << <<"g","o">>, <<"g","o">>, <<"g","o">> >>
            /\ DemoName(i) = <<"O","n","e"," ","t","w","o"," ","t","h","r","e","e"," ","f","o","u","r"," ","f","i","v","e"," ","s","i","x">> => Len(tags) = 6

\* C9, reached: the card of "Fall Detection AI Demo" is written without tags.
C9_Witness ==
    \E i \in 1..Len(Written("demos.html")) :
        /\ DemoName(i) = <<"F","a","l","l"," ","D","e","t","e","c","t","i","o","n"," ","A","I"," ","D","e","m","o">>
        /\ Tags(Written("demos.html")[i]) = <<>>

\* the src of the images of a card with the given alt text, in order
ImagesOf(card, alt) ==
    LET imgs == Parts(card, "img", alt)
    IN  [k \in 1..Len(imgs) |-> imgs[k].text]

\* the cells of the columns that are neither empty nor "-", in column order
GivenImages(i, cols) ==
    LET given == SelectSeq(RowCells(demos_df, i, cols),
                           LAMBDA c : str(c) /= <<>> /\ str(c) /= s_dash)
    IN  [k \in 1..Len(given) |-> str(given[k])]

\* C10: both image lists of a demo card hold, in column order, exactly the
\* cells that are neither empty nor "-".
C10_ImageListsSkipSentinels ==
    \A i \in 1..Len(Written("demos.html")) :
        LET card == Written("demos.html")[i]
        IN  /\ ImagesOf(card, <<"D","a","s","h","b","o","a","r","d"," ","i","m","a","g","e">>) = GivenImages(i, dash_cols)
            /\ ImagesOf(card, <<"D","e","m","o"," ","i","m","a","g","e">>) = GivenImages(i, demo_img_cols)

\* the team counts of an inventory card, in order
Counts(card) ==
    LET divs == SelectSeq(card.parts, LAMBDA e : e.kind = "counts")
    IN  IF divs = <<>> THEN <<>> ELSE divs[1].items

HasDigit(s) == \E i \in 1..Len(s) : \E d \in 1..10 : Digit[d] = s[i]

\* a cell of the sheet that is blank, or a text that holds no digit
BlankOrNonNumeric(c) == c.t = "nan" \/ (c.t = "str" /\ ~HasDigit(c.s))

\* the cell of the sheet below the header that gave row i its column name
SheetCell(i, name) == workbook.Inventory[i + 1][ColumnIndex(inv_df, name)]

\* C11: a team-count cell that is blank or not numeric is shown as the count
\* 0, and no such cell makes the run raise: the card of the row is written.
C11_BlankCountsAreZero ==
    /\ pc /= "failed"
    /\ pc \in {"inventory", "done"} =>
           Len(Written("inventory.html")) = Len(workbook.Inventory) - 1
    /\ \A i \in 1..Len(Written("inventory.html")) :
          LET counts == Counts(Written("inventory.html")[i])
          IN  /\ [k \in 1..Len(counts) |-> counts[k].name] = << <<"K","K">>, <<"M","L">> >>
              /\ \A k \in 1..Len(counts) :
                    BlankOrNonNumeric(SheetCell(i, counts[k].name)) => counts[k].n = 0

\* C11, reached: the card of a row whose KK cell reads "abc" and whose ML
\* cell is empty is written with 0 for both.
C11_Witness ==
    /\ pc = "done"
    /\ SheetCell(1, <<"K","K">>) = Str(<<"a","b","c">>)
    /\ SheetCell(1, <<"M","L">>) = NaN
    /\ Counts(Written("inventory.html")[1]) =
           << [name |-> <<"K","K">>, n |-> 0], [name |-> <<"M","L">>, n |-> 0] >>

\* C12: every team count on an inventory card is a non-negative integer.
C12_CountsNonNegative ==
    \A i \in 1..Len(Written("inventory.html")) :
        LET counts == Counts(Written("inventory.html")[i])
        IN  \A k \in 1..Len(counts) : counts[k].n \in Nat

\* the image elements of a card, in order
Images(card) == SelectSeq(card.parts, LAMBDA e : e.kind = "img")

\* C13: the thumbnail of a row is its ImageURL when that is not empty and its
\* Image otherwise, and the card holds an image element, with the thumbnail
\* as its source, iff the thumbnail is not empty and is not "no" in any
\* letter case.
C13_ThumbnailAndSentinel ==
    \A i \in 1..Len(Written("inventory.html")) :
        LET image_url == Cell(inv_df, i, s_ImageURL)
            generic == Cell(inv_df, i, s_Image)
            thumb == IF image_url /= Str(<<>>) THEN image_url ELSE generic
            shown == thumb /= Str(<<>>) /\ lower(str(thumb)) /= s_no
        IN  Images(Written("inventory.html")[i]) =
                IF shown
                THEN <<El("img", str(Cell(inv_df, i, s_CommonName)), str(thumb))>>
                ELSE <<>>

\* C13, reached: ImageURL reads "No" and Image names a picture: the card is
\* written without an image.
C13_Witness ==
    \E i \in 1..Len(Written("inventory.html")) :
        /\ Cell(inv_df, i, s_ImageURL) = Str(<<"N","o">>)
        /\ Cell(inv_df, i, s_Image) = Str(<<"a",".","p","n","g">>)
        /\ Images(Written("inventory.html")[i]) = <<>>

\* C14: once the two sheets are loaded no row makes the run fail, and the
\* finished run has written one card for every row of either sheet.
C14_EveryRowGetsCard ==
    load_data(workbook).ok =>
        /\ pc /= "failed"
        /\ pc = "done" =>
               /\ Len(Written("inventory.html")) = Len(inv_df.rows)
               /\ Len(Written("demos.html")) = Len(demos_df.rows)

\* the first origin, in the order URL, cloud storage, local file, that yields
\* a workbook
FirstUsable ==
    IF origins.url.state = "serves" THEN origins.url.book
    ELSE IF origins.cloud.state = "serves" THEN origins.cloud.book
    ELSE workbook

\* C15 as stated: the run loads the workbook of the first origin that yields
\* one, in the order URL, cloud storage, local file, and fails only when that
\* workbook cannot be loaded.
C15_OriginsTriedInOrder ==
    pc /= "start" =>
        IF load_data(FirstUsable).ok
        THEN /\ pc /= "failed"
             /\ inv_df = load_data(FirstUsable).inv
             /\ demos_df = load_data(FirstUsable).demos
        ELSE pc = "failed"

\* C15, amended: the local file is the only origin: a run that gets past
\* load_data holds the rows of the local file, whatever the URL and the cloud
\* storage would serve, and when the local file cannot be loaded the run
\* fails with nothing written, also when another origin would serve.
C15_LocalFileOnly ==
    pc /= "start" =>
        IF load_data(workbook).ok
        THEN /\ pc /= "failed"
             /\ inv_df = load_data(workbook).inv
             /\ demos_df = load_data(workbook).demos
        ELSE /\ pc = "failed"
             /\ \A f \in FileNames : files[f].state /= "fresh"

\* C15, reached: the URL serves another workbook, and the finished run holds
\* the rows of the local file.
C15_Witness ==
    /\ origins.url.state = "serves"
    /\ pc = "done"
    /\ inv_df = load_data(workbook).inv
    /\ inv_df /= load_data(origins.url.book).inv

\* the frame that holds row i of df and nothing else
Alone(df, i) == DataFrame(df.columns, <<df.rows[i]>>)

\* C16: the card of a row depends on the row only: two equal rows of a sheet
\* get equal cards, whatever was rendered before them, and the card of a row
\* is the card a run over that row alone gives it.
C16_CardsDependOnRowOnly ==
    /\ \A i \in 1..Len(Written("inventory.html")) :
          /\ \A j \in 1..Len(Written("inventory.html")) :
                inv_df.rows[i] = inv_df.rows[j] =>
                    Written("inventory.html")[i] = Written("inventory.html")[j]
          /\ <<Written("inventory.html")[i]>> =
                 generate_inventory(Alone(inv_df, i)).cards
    /\ \A i \in 1..Len(Written("demos.html")) :
          /\ \A j \in 1..Len(Written("demos.html")) :
                demos_df.rows[i] = demos_df.rows[j] =>
                    Written("demos.html")[i] = Written("demos.html")[j]
          /\ <<Written("demos.html")[i]>> = generate_demos(Alone(demos_df, i)).cards

\* C16, reached: a sheet holds the same board twice and the same demo twice,
\* and both pages are written.
C16_Witness ==
    /\ pc = "done"
    /\ Len(inv_df.rows) = 2 /\ inv_df.rows[1] = inv_df.rows[2]
    /\ Len(demos_df.rows) = 2 /\ demos_df.rows[1] = demos_df.rows[2]
    /\ Written("inventory.html")[1] = Written("inventory.html")[2]

\* C17: a listing page that is written holds one card per row of its frame,
\* in the order of the rows of the sheet, and the counts of the landing page
\* of a finished run are the numbers of cards of the two listing pages.
C17_OneCardPerRowInOrder ==
    /\ files["inventory.html"].state = "fresh" =>
          /\ Len(files["inventory.html"].content) = Len(workbook.Inventory) - 1
          /\ Len(files["inventory.html"].content) = Len(inv_df.rows)
          /\ \A i \in 1..Len(inv_df.rows) :
                Parts(files["inventory.html"].content[i], "p", <<"P","a","r","t"," ","N","u","m","b","e","r",":">>) =
                    <<El("p", <<"P","a","r","t"," ","N","u","m","b","e","r",":">>, strip(workbook.Inventory[i + 1][3].s))>>
    /\ files["demos.html"].state = "fresh" =>
          /\ Len(files["demos.html"].content) = Len(workbook.Demos) - 1
          /\ Len(files["demos.html"].content) = Len(demos_df.rows)
          /\ \A i \in 1..Len(demos_df.rows) :
                Parts(files["demos.html"].content[i], "h2", <<>>) =
                    <<El("h2", <<>>, strip(workbook.Demos[i + 1][1].s))>>
    /\ pc = "done" =>
          files["index.html"].content =
              <<Len(files["inventory.html"].content), Len(files["demos.html"].content)>>

\* C17, reached: a finished run over two different boards, the first without
\* a manufacturer, and two demos.
C17_Witness ==
    /\ pc = "done"
    /\ files["index.html"].content = <<2, 2>>
    /\ Written("inventory.html")[1].manufacturer = <<>>
    /\ Written("inventory.html")[2].manufacturer /= <<>>
    /\ Written("demos.html")[1] /= Written("demos.html")[2]

\* C18: on a listing page that is written, the options after "all" are the
\* trimmed, non-empty manufacturers of the cards, sorted and without
\* duplicates, and every card with a manufacturer has exactly one option whose
\* value is the card's data-manufacturer key.
C18_OneOptionPerKey ==
    \A f \in {"inventory.html", "demos.html"} :
        files[f].state = "fresh" =>
            LET options == files[f].options
                cards == files[f].content
            IN  /\ Len(options) >= 1 /\ options[1].value = s_all
                /\ \A k \in 2..Len(options) : options[k].label /= <<>>
                /\ \A k \in 2..(Len(options) - 1) :
                      str_lt(options[k].label, options[k + 1].label)
                /\ \A i \in 1..Len(cards) :
                      cards[i].manufacturer /= <<>> =>
                          Cardinality({k \in 1..Len(options) :
                                          options[k].value = cards[i].manufacturer}) = 1

\* C19: a run that has stopped, finished or failed, has written all three
\* pages or none of them.
C19_AllOrNothing ==
    pc \in {"done", "failed"} =>
        \/ \A f \in FileNames : files[f].state = "fresh"
        \/ \A f \in FileNames : files[f].state /= "fresh"

=============================================================================
